---- MODULE Spec2Model ----
(***************************************************************************)
(* png-util: the PNG container codec.  A byte is a number in 0..255, a     *)
(* buffer a sequence of bytes.  A u32 is kept as the pair <<hi, lo>> of    *)
(* its two 16-bit halves, so that the full 32-bit width is retained.       *)
(***************************************************************************)
EXTENDS Integers, Sequences, FiniteSets, TLC

VARIABLES
    buffer,           \* PNGReader.buffer: the bytes handed to PNGReader::new
    reader,           \* "none", the outcome of PNGReader::new ("Ok" or the error),
                      \* "Unchecked" after new_unchecked, "Panicked" once it is lost
    iter,             \* the PNGIter made from the reader: None or Some([cursor, current_section])
    item,             \* what the last PNGIter::next() returned: None or Some(ChunkRefs)
    calls,            \* number of next() calls made on iter, or of calls made on owned
    chunks,           \* PNGBuilder.chunks: the retained owned chunks, each its bytes
    builder,          \* "live", "consumed" (moved into build) or "panicked"
    output,           \* None, or Some(the Vec<u8> build() returned)
    history,          \* the calls made on the builder, with their arguments
    report,           \* the entries of the error PNGReader::new returned for failing crcs
    owned,            \* an owned PNGChunk on its own: None or Some(its Vec<u8>)
    input,            \* the argument the pure functions are applied to
    ret               \* the last call made on owned or on input: None or
                      \* Some([op |-> its name, arg |-> its arguments, val |-> what it returned])

vars == <<buffer, reader, iter, item, calls, chunks, builder, output, history,
          report, owned, input, ret>>

\* the objects the reader and the builder do not touch
unit == <<owned, input, ret>>

\* Option<T>: None is the empty sequence, Some(x) the sequence of x alone
None == <<>>
Some(x) == <<x>>

----------------------------------------------------------------------------
(* Bounds of the model *)

\* chunks in a generated input buffer
MaxChunks == 2
\* bytes cut off the end of a generated input buffer
MaxCut == 13
\* next() calls on one iterator
MaxCalls == 4
\* with_chunk / with_chunks / with_png calls made on one builder
MaxOps == 2

----------------------------------------------------------------------------
(* u32 arithmetic on <<hi, lo>> pairs *)

RECURSIVE Xor(_, _)
Xor(a, b) ==
    IF a = 0 THEN b
    ELSE IF b = 0 THEN a
    ELSE ((a + b) % 2) + 2 * Xor(a \div 2, b \div 2)

U32(n) == <<n \div 65536, n % 65536>>
Xor32(x, y) == <<Xor(x[1], y[1]), Xor(x[2], y[2])>>
Shr1(x) == <<x[1] \div 2, (x[2] \div 2) + (x[1] % 2) * 32768>>
Shr8(x) == <<x[1] \div 256, (x[2] \div 256) + (x[1] % 256) * 256>>
LowByte(x) == x[2] % 256
Gt32(x, y) == x[1] > y[1] \/ (x[1] = y[1] /\ x[2] > y[2])

\* u32::to_be_bytes / u32::from_be_bytes
to_be_bytes(x) == <<x[1] \div 256, x[1] % 256, x[2] \div 256, x[2] % 256>>
from_be_bytes(b) == <<b[1] * 256 + b[2], b[3] * 256 + b[4]>>

\* u32::MAX
U32_MAX == <<65535, 65535>>
\* the largest chunk length set_length accepts, 0x80000000
MAX_LENGTH == <<32768, 0>>

----------------------------------------------------------------------------
(* consts.rs *)

PNG_SIGNATURE_LENGTH == 8
PNG_SIGNATURE == <<137, 80, 78, 71, 13, 10, 26, 10>>
CHUNK_HEADER_SIZE == 8
CHUNK_CRC_SIZE == 4

\* bytes off+1 .. off+n of b; a byte outside b reads as 0
Slice(b, off, n) == [k \in 1..n |-> IF off + k <= Len(b) THEN b[off + k] ELSE 0]

RECURSIVE Flatten(_)
Flatten(ss) == IF ss = <<>> THEN <<>> ELSE Head(ss) \o Flatten(Tail(ss))

----------------------------------------------------------------------------
(* chunk/crc.rs *)

\* the polynomial 0xEDB88320
CRC_POLY == <<60856, 33568>>

RECURSIVE crc_table_entry(_, _)
crc_table_entry(c, k) ==
    IF k = 8 THEN c
    ELSE crc_table_entry(IF c[2] % 2 # 0 THEN Xor32(CRC_POLY, Shr1(c)) ELSE Shr1(c),
                         k + 1)

make_crc_table == [n \in 0..255 |-> crc_table_entry(U32(n), 0)]

CRC_TABLE == make_crc_table

RECURSIVE update_crc(_, _)
update_crc(c, buf) ==
    IF buf = <<>> THEN c
    ELSE update_crc(Xor32(CRC_TABLE[Xor(LowByte(c), Head(buf))], Shr8(c)), Tail(buf))

\* a crc without the final XOR
crc_without_final_xor(buf) == update_crc(U32_MAX, buf)

crc(buf) == Xor32(update_crc(U32_MAX, buf), U32_MAX)

\* ChunkCRC::is_valid_crc: stored is the 4 stored bytes
is_valid_crc(stored, data) == crc(data) = from_be_bytes(stored)

----------------------------------------------------------------------------
(* chunk/ty/mod.rs: a chunk type is its 4 bytes; a &str is its bytes *)

IHDR == <<73, 72, 68, 82>>
IEND == <<73, 69, 78, 68>>
teST == <<116, 101, 83, 84>>
\* "te5T": four ASCII bytes, the third a digit
te5T == <<116, 101, 53, 84>>

is_ascii_alphabetic(chr) == (chr >= 65 /\ chr <= 90) \/ (chr >= 97 /\ chr <= 122)

\* a validation of the length alone
validate_chunk_type_length_only(chunk_type) ==
    IF Len(chunk_type) # 4 THEN "InvalidChunkType" ELSE "Ok"

\* ChunkType::validate_chunk_type: "Ok" or the error
validate_chunk_type(chunk_type) ==
    IF Len(chunk_type) # 4 THEN "InvalidChunkType"
    ELSE IF \E i \in 1..Len(chunk_type) : ~is_ascii_alphabetic(chunk_type[i])
         THEN "InvalidChunkType"
    ELSE "Ok"

----------------------------------------------------------------------------
(* chunk/header.rs: a ChunkHeader is 8 bytes, length then type *)

get_length(header) == from_be_bytes(SubSeq(header, 1, 4))
get_chunk_type(header) == SubSeq(header, 5, 8)

\* a set_length that refuses 0x80000000 as well
set_length_strict(d, length) ==
    IF ~Gt32(MAX_LENGTH, length) THEN [ok |-> FALSE, data |-> d]
    ELSE [ok |-> TRUE, data |-> to_be_bytes(length) \o SubSeq(d, 5, Len(d))]

\* set_length on the header at the front of the bytes d
set_length(d, length) ==
    IF Gt32(length, MAX_LENGTH) THEN [ok |-> FALSE, data |-> d]
    ELSE [ok |-> TRUE, data |-> to_be_bytes(length) \o SubSeq(d, 5, Len(d))]

\* set_chunk_type on the header at the front of the bytes d
set_chunk_type(d, chunk_type) ==
    IF validate_chunk_type(chunk_type) # "Ok"
    THEN [ok |-> FALSE, data |-> d]
    ELSE [ok |-> TRUE, data |-> SubSeq(d, 1, 4) \o chunk_type \o SubSeq(d, 9, Len(d))]

\* ChunkHeader::new(length, chunk_type_str): a header of zeros, its type set,
\* then its length; what set_length returns is dropped
ChunkHeader_new(length, chunk_type_str) ==
    LET chunk == [k \in 1..CHUNK_HEADER_SIZE |-> 0]
        typed == set_chunk_type(chunk, chunk_type_str)
    IN  IF ~typed.ok THEN [err |-> "InvalidChunkType", header |-> <<>>]
        ELSE [err |-> "Ok", header |-> set_length(typed.data, length).data]

----------------------------------------------------------------------------
(* chunk/mod.rs: an owned PNGChunk is its Vec<u8>, header ++ data ++ crc *)

Zeros(n) == [k \in 1..n |-> 0]

\* usize of a u32 known to fit the buffers of the model
AsUsize(x) == x[1] * 65536 + x[2]

\* ChunkType::new(chunk_type_str): the 4 bytes of the new ChunkType, or the error
ChunkType_new(chunk_type_str) ==
    LET r == set_chunk_type(Zeros(CHUNK_HEADER_SIZE), chunk_type_str)
    IN  IF r.ok THEN [err |-> "Ok", _type |-> get_chunk_type(r.data)]
        ELSE [err |-> "InvalidChunkType", _type |-> <<>>]

\* PNGChunk::get_crc_data: the type and the `length` bytes after it
PNGChunk_get_crc_data(d) == Slice(d, 4, AsUsize(get_length(d)) + 4)

PNGChunk_get_chunk_data(d) == Slice(d, CHUNK_HEADER_SIZE, AsUsize(get_length(d)))

PNGChunk_get_crc(d) == Slice(d, CHUNK_HEADER_SIZE + AsUsize(get_length(d)), CHUNK_CRC_SIZE)

calculate_and_set_crc(d) ==
    LET at == AsUsize(get_length(d)) + CHUNK_HEADER_SIZE
    IN  SubSeq(d, 1, at) \o to_be_bytes(crc(PNGChunk_get_crc_data(d)))
            \o SubSeq(d, at + CHUNK_CRC_SIZE + 1, Len(d))

\* a usize is kept as <<w2, w1, w0>>, three 16-bit digits; `as u32` keeps two
Usize(n) == <<0, n \div 65536, n % 65536>>
as_u32(z) == <<z[2], z[3]>>

\* the header PNGChunk::new writes for chunk data of len bytes, or the error
PNGChunk_new_header(chunk_type, len) ==
    LET l == set_length(Zeros(CHUNK_HEADER_SIZE), as_u32(len))
        t == set_chunk_type(l.data, chunk_type)
    IN  IF ~l.ok THEN [err |-> "LengthOverflow", data |-> <<>>]
        ELSE IF ~t.ok THEN [err |-> "InvalidChunkType", data |-> <<>>]
        ELSE [err |-> "Ok", data |-> t.data]

\* PNGChunk::new: [err |-> "Ok", data |-> the chunk's bytes] or the error
PNGChunk_new(chunk_type, chunk_data) ==
    LET h == PNGChunk_new_header(chunk_type, Usize(Len(chunk_data)))
    IN  IF h.err # "Ok" THEN h
        ELSE [err |-> "Ok",
              data |-> calculate_and_set_crc(h.data \o chunk_data \o Zeros(CHUNK_CRC_SIZE))]

----------------------------------------------------------------------------
(* chunk/refs.rs: a ChunkRefs is three borrows, and where they lie *)

\* ChunkRefs::new over the bytes of b: header at off, data of n bytes, crc
ChunkRefs_new(b, off, n) ==
    [header |-> Slice(b, off, CHUNK_HEADER_SIZE),
     chunk_data |-> Slice(b, off + CHUNK_HEADER_SIZE, n),
     crc |-> Slice(b, off + CHUNK_HEADER_SIZE + n, CHUNK_CRC_SIZE),
     off |-> off,
     end |-> off + CHUNK_HEADER_SIZE + n + CHUNK_CRC_SIZE]

\* the type and the data, contiguous in the backing buffer
ChunkRefs_get_crc_data(v) == get_chunk_type(v.header) \o v.chunk_data

ChunkRefs_validate_crc(v) == is_valid_crc(v.crc, ChunkRefs_get_crc_data(v))

\* impl From<&PNGChunk> for ChunkRefs
as_chunk_refs(d) == ChunkRefs_new(d, 0, AsUsize(get_length(d)))

\* a conversion that copies the borrowed bytes, stored crc included
From_ChunkRefs_verbatim(v) ==
    IF validate_chunk_type(get_chunk_type(v.header)) # "Ok"
    THEN [err |-> "InvalidChunkType", data |-> <<>>]
    ELSE [err |-> "Ok", data |-> v.header \o v.chunk_data \o v.crc]

\* impl From<ChunkRefs> for PNGChunk, before the unwrap
From_ChunkRefs(v) == PNGChunk_new(get_chunk_type(v.header), v.chunk_data)

----------------------------------------------------------------------------
(* iter.rs *)

\* a read that only asks for some byte to remain
read_bytes_lax(b, cur, n) ==
    IF cur < Len(b) THEN [ok |-> TRUE, cursor |-> cur + n[2]]
    ELSE [ok |-> FALSE, cursor |-> cur]

\* BufferReader::read_bytes / read_t of a u32 count n at cursor cur: an error,
\* the cursor where it was, when fewer than n bytes remain
read_bytes(b, cur, n) ==
    IF n[1] = 0 /\ cur + n[2] <= Len(b)
    THEN [ok |-> TRUE, cursor |-> cur + n[2]]
    ELSE [ok |-> FALSE, cursor |-> cur]

\* next without the test of current_section
next_no_iend_check(b, cur, sect) ==
    LET h == read_bytes(b, cur, U32(CHUNK_HEADER_SIZE))
        header == Slice(b, cur, CHUNK_HEADER_SIZE)
        d == read_bytes(b, h.cursor, get_length(header))
        c == read_bytes(b, d.cursor, U32(CHUNK_CRC_SIZE))
    IN  IF ~h.ok THEN [cursor |-> h.cursor, current_section |-> sect, item |-> None]
        ELSE IF ~d.ok \/ ~c.ok
             THEN [cursor |-> IF d.ok THEN c.cursor ELSE d.cursor,
                   current_section |-> get_chunk_type(header), item |-> None]
        ELSE [cursor |-> c.cursor, current_section |-> get_chunk_type(header),
              item |-> Some(ChunkRefs_new(b, cur, d.cursor - h.cursor))]

\* PNGIter::next: the iterator after the call, and the item returned
next(b, cur, sect) ==
    IF sect = IEND
    THEN [cursor |-> cur, current_section |-> sect, item |-> None]
    ELSE LET h == read_bytes(b, cur, U32(CHUNK_HEADER_SIZE)) IN
         IF ~h.ok
         THEN [cursor |-> h.cursor, current_section |-> sect, item |-> None]
         ELSE LET header == Slice(b, cur, CHUNK_HEADER_SIZE)
                  chunk_data_len == get_length(header)
                  d == read_bytes(b, h.cursor, chunk_data_len)
              IN  IF ~d.ok
                  THEN [cursor |-> d.cursor, current_section |-> get_chunk_type(header),
                        item |-> None]
                  ELSE LET c == read_bytes(b, d.cursor, U32(CHUNK_CRC_SIZE)) IN
                       IF ~c.ok
                       THEN [cursor |-> c.cursor,
                             current_section |-> get_chunk_type(header), item |-> None]
                       ELSE [cursor |-> c.cursor,
                             current_section |-> get_chunk_type(header),
                             item |-> Some(ChunkRefs_new(b, cur, d.cursor - h.cursor))]

\* IntoIterator for &PNGReader
into_iter == [cursor |-> PNG_SIGNATURE_LENGTH, current_section |-> Zeros(4)]

\* the items of a for loop over the iterator: next() until it returns None
RECURSIVE collect(_, _, _)
collect(b, cur, sect) ==
    LET r == next(b, cur, sect)
    IN  IF r.item = None THEN <<>>
        ELSE r.item \o collect(b, r.cursor, r.current_section)

get_all_chunk_info(b) == collect(b, into_iter.cursor, into_iter.current_section)

----------------------------------------------------------------------------
(* lib.rs *)

validate_header(b) ==
    IF Len(b) < PNG_SIGNATURE_LENGTH THEN "ErrShorterThanSignature"
    ELSE IF SubSeq(b, 1, PNG_SIGNATURE_LENGTH) # PNG_SIGNATURE THEN "ErrSignature"
    ELSE "Ok"

\* the indexes of the chunks whose crc fails; validate_chunks is Ok when empty
crc_failures(b) ==
    LET cs == get_all_chunk_info(b)
    IN  {i \in 1..Len(cs) : ~ChunkRefs_validate_crc(cs[i])}

\* the arguments of the line validate_chunks writes for chunk number i
error_entry(i, chunk_info) ==
    [index |-> i,
     chunk_type |-> get_chunk_type(chunk_info.header),
     length |-> get_length(chunk_info.header),
     crc |-> from_be_bytes(chunk_info.crc),
     calculated_crc |-> from_be_bytes(chunk_info.crc)]

\* a check that gives up at the first failing chunk
chunk_errors_fail_fast(b) ==
    LET cs == get_all_chunk_info(b)
        bad == {i \in 1..Len(cs) : ~ChunkRefs_validate_crc(cs[i])}
    IN  IF bad = {} THEN <<>>
        ELSE LET i == CHOOSE j \in bad : \A k \in bad : j <= k
             IN  <<error_entry(i - 1, cs[i])>>

\* the lines of the error validate_chunks builds, one per failing chunk
chunk_errors(b) ==
    LET cs == get_all_chunk_info(b)
        es == [i \in 1..Len(cs) |-> error_entry(i - 1, cs[i])]
        failed(e) == ~ChunkRefs_validate_crc(cs[e.index + 1])
    IN  SelectSeq(es, failed)

validate_chunks(b) == IF chunk_errors(b) # <<>> THEN "ErrChunks" ELSE "Ok"

\* the two validations in the other order
PNGReader_new_chunks_first(b) ==
    IF validate_chunks(b) # "Ok" THEN validate_chunks(b)
    ELSE validate_header(b)

\* PNGReader::new: "Ok" or the first error of the two validations
PNGReader_new(b) ==
    IF validate_header(b) # "Ok" THEN validate_header(b)
    ELSE validate_chunks(b)

----------------------------------------------------------------------------
(* builder.rs *)

\* An argument of with_chunk, an `impl Into<PNGChunk>`: an owned PNGChunk or a
\* borrowed ChunkRefs, in both cases its header, data and crc bytes.
Owned(d) ==
    [kind |-> "owned", header |-> SubSeq(d, 1, CHUNK_HEADER_SIZE),
     chunk_data |-> PNGChunk_get_chunk_data(d), crc |-> PNGChunk_get_crc(d)]
Borrowed(v) ==
    [kind |-> "refs", header |-> v.header, chunk_data |-> v.chunk_data, crc |-> v.crc]

StoredBytes(x) == x.header \o x.chunk_data \o x.crc

\* chunk.into(): a PNGChunk is itself, a ChunkRefs goes through PNGChunk::new
into(x) ==
    IF x.kind = "owned" THEN [err |-> "Ok", data |-> StoredBytes(x)]
    ELSE From_ChunkRefs(x)

\* with_chunk without the test for "IEND"
with_chunk_keeps_iend(cs, x) ==
    LET chunk == into(x)
    IN  IF chunk.err # "Ok" THEN [panic |-> TRUE, chunks |-> cs]
        ELSE [panic |-> FALSE, chunks |-> Append(cs, chunk.data)]

\* with_chunk inserting at the front of the list
with_chunk_prepend(cs, x) ==
    LET chunk == into(x)
    IN  IF chunk.err # "Ok" THEN [panic |-> TRUE, chunks |-> cs]
        ELSE IF get_chunk_type(chunk.data) = IEND THEN [panic |-> FALSE, chunks |-> cs]
        ELSE [panic |-> FALSE, chunks |-> <<chunk.data>> \o cs]

\* PNGBuilder::with_chunk on the chunk list cs; panic when the unwrap fails
with_chunk(cs, x) ==
    LET chunk == into(x)
    IN  IF chunk.err # "Ok" THEN [panic |-> TRUE, chunks |-> cs]
        ELSE IF get_chunk_type(chunk.data) = IEND THEN [panic |-> FALSE, chunks |-> cs]
        ELSE [panic |-> FALSE, chunks |-> Append(cs, chunk.data)]

\* PNGBuilder::with_chunks: with_chunk for each, in order
RECURSIVE with_chunks(_, _)
with_chunks(cs, xs) ==
    IF xs = <<>> THEN [panic |-> FALSE, chunks |-> cs]
    ELSE LET r == with_chunk(cs, Head(xs))
         IN  IF r.panic THEN r ELSE with_chunks(r.chunks, Tail(xs))

\* the chunks the loop of with_png passes to with_chunk
PngChunks(b) ==
    LET cs == get_all_chunk_info(b) IN [i \in 1..Len(cs) |-> Borrowed(cs[i])]

\* PNGBuilder::with_png
with_png(cs, b) == with_chunks(cs, PngChunks(b))

\* PNGBuilder::build
build(cs) == PNG_SIGNATURE \o Flatten(cs) \o PNGChunk_new(IEND, <<>>).data

----------------------------------------------------------------------------
(* The inputs of the model *)

\* the bytes of a chunk as a file holds them, its crc computed
RawChunk(ty, data) ==
    to_be_bytes(U32(Len(data))) \o ty \o data \o to_be_bytes(crc(ty \o data))

\* the same bytes with the lowest bit of the stored crc flipped
Corrupt(d) ==
    LET l == d[Len(d)]
    IN  SubSeq(d, 1, Len(d) - 1) \o <<IF l % 2 = 0 THEN l + 1 ELSE l - 1>>

\* a header that declares 0x80000001 bytes of data
HugeHeader == <<128, 0, 0, 1>> \o teST

Pool ==
    { RawChunk(IHDR, <<>>), RawChunk(IEND, <<>>), RawChunk(IEND, <<7>>),
      RawChunk(teST, <<>>), RawChunk(teST, <<7>>), RawChunk(te5T, <<>>),
      Corrupt(RawChunk(IHDR, <<>>)), Corrupt(RawChunk(teST, <<7>>)), HugeHeader }

RECURSIVE SeqsUpTo(_, _)
SeqsUpTo(S, n) ==
    IF n = 0 THEN {<<>>}
    ELSE LET shorter == SeqsUpTo(S, n - 1)
         IN  shorter \cup {Append(s, x) : s \in shorter, x \in S}

Bodies == {Flatten(s) : s \in SeqsUpTo(Pool, MaxChunks)}

Cuts(b) == {SubSeq(b, 1, Len(b) - k) : k \in 0..(IF Len(b) < MaxCut THEN Len(b) ELSE MaxCut)}

\* the signature with one byte changed, and its proper prefixes
BadSignatures ==
    {[PNG_SIGNATURE EXCEPT ![i] = 0] : i \in 1..PNG_SIGNATURE_LENGTH}
ShortBuffers ==
    {SubSeq(PNG_SIGNATURE, 1, k) : k \in 0..(PNG_SIGNATURE_LENGTH - 1)}

\* the buffers PNGReader::new is tried on
Buffers ==
    UNION {{PNG_SIGNATURE \o c : c \in Cuts(b)} : b \in Bodies}
    \cup {g \o b : g \in BadSignatures,
                   b \in {<<>>, RawChunk(IHDR, <<>>), Corrupt(RawChunk(teST, <<7>>))}}
    \cup ShortBuffers

\* the PNG files the builder is given
BuilderBuffers ==
    { PNG_SIGNATURE,
      PNG_SIGNATURE \o RawChunk(IHDR, <<>>) \o RawChunk(IEND, <<>>),
      PNG_SIGNATURE \o RawChunk(IHDR, <<>>) \o RawChunk(teST, <<7>>),
      PNG_SIGNATURE \o RawChunk(teST, <<7>>) \o RawChunk(IEND, <<7>>)
          \o RawChunk(IHDR, <<>>),
      PNG_SIGNATURE \o RawChunk(IHDR, <<>>) \o RawChunk(te5T, <<>>)
          \o RawChunk(IEND, <<>>),
      PNG_SIGNATURE \o RawChunk(IHDR, <<>>) \o SubSeq(RawChunk(teST, <<7>>), 1, 10),
      PNG_SIGNATURE \o RawChunk(IHDR, <<>>) \o Corrupt(RawChunk(teST, <<7>>)),
      [PNG_SIGNATURE EXCEPT ![6] = 0] \o RawChunk(IHDR, <<>>) }

\* an owned chunk whose data was written through get_chunk_data_mut after new
StaleChunk ==
    LET d == PNGChunk_new(teST, <<7>>).data IN [d EXCEPT ![CHUNK_HEADER_SIZE + 1] = 9]

\* the chunks handed to with_chunk and with_chunks
OwnedInputs ==
    { Owned(PNGChunk_new(IHDR, <<>>).data), Owned(PNGChunk_new(IEND, <<>>).data),
      Owned(StaleChunk) }
RefsInputs ==
    { Borrowed(as_chunk_refs(RawChunk(IHDR, <<>>))),
      Borrowed(as_chunk_refs(Corrupt(RawChunk(teST, <<7>>)))),
      Borrowed(as_chunk_refs(Corrupt(RawChunk(IEND, <<>>)))),
      Borrowed(as_chunk_refs(RawChunk(te5T, <<>>))) }
Inputs == OwnedInputs \cup RefsInputs

\* the vectors handed to with_chunks
Vectors ==
    LET o(ty, data) == Owned(PNGChunk_new(ty, data).data)
        r(d) == Borrowed(as_chunk_refs(d))
    IN  { <<>>,
          <<o(IHDR, <<>>), o(IEND, <<>>), Owned(StaleChunk)>>,
          <<r(RawChunk(IHDR, <<>>)), r(RawChunk(IEND, <<7>>)),
            r(Corrupt(RawChunk(teST, <<7>>)))>>,
          <<r(RawChunk(teST, <<>>)), r(RawChunk(te5T, <<>>)), r(RawChunk(IHDR, <<>>))>> }

----------------------------------------------------------------------------
(* The state machine *)

Idle ==
    /\ reader = "none" /\ iter = None /\ item = None /\ calls = 0
    /\ chunks = <<>> /\ builder = "live" /\ output = None /\ history = <<>>
    /\ report = <<>>

NoUnit == owned = None /\ input = None /\ ret = None

Init == buffer \in BuilderBuffers /\ Idle /\ NoUnit

InitReader == buffer \in Buffers /\ Idle /\ NoUnit

\* PNGReader::new(buffer)
New ==
    /\ reader = "none"
    /\ reader' = PNGReader_new(buffer)
    /\ report' = IF reader' = "ErrChunks" THEN chunk_errors(buffer) ELSE <<>>
    /\ UNCHANGED <<unit, buffer, iter, item, calls, chunks, builder, output, history>>

\* unsafe PNGReader::new_unchecked(buffer): no validation
NewUnchecked ==
    /\ reader = "none"
    /\ reader' = "Unchecked"
    /\ UNCHANGED <<unit, report, buffer, iter, item, calls, chunks, builder, output, history>>

\* (&png).into_iter() on a reader; slicing off the signature panics when the
\* buffer is shorter than it
IntoIter ==
    /\ reader \in {"Ok", "Unchecked"} /\ iter = None
    /\ IF Len(buffer) < PNG_SIGNATURE_LENGTH
       THEN reader' = "Panicked" /\ iter' = iter
       ELSE reader' = reader /\ iter' = Some(into_iter)
    /\ UNCHANGED <<unit, report, buffer, item, calls, chunks, builder, output, history>>

\* PNGIter::next()
Next_ ==
    /\ iter # None /\ calls < MaxCalls
    /\ LET r == next(buffer, iter[1].cursor, iter[1].current_section)
       IN  /\ iter' = Some([cursor |-> r.cursor, current_section |-> r.current_section])
           /\ item' = r.item
    /\ calls' = calls + 1
    /\ UNCHANGED <<unit, report, buffer, reader, chunks, builder, output, history>>

Called(op, arg) == history' = Append(history, [op |-> op, arg |-> arg])

Apply(r) ==
    /\ chunks' = IF r.panic THEN <<>> ELSE r.chunks
    /\ builder' = IF r.panic THEN "panicked" ELSE "live"

\* builder.with_chunk(x)
WithChunk ==
    /\ builder = "live" /\ Len(history) < MaxOps
    /\ \E x \in Inputs :
          /\ Apply(with_chunk(chunks, x))
          /\ Called("with_chunk", <<x>>)
    /\ UNCHANGED <<unit, report, buffer, reader, iter, item, calls, output>>

\* builder.with_chunks(xs)
WithChunks ==
    /\ builder = "live" /\ Len(history) < MaxOps
    /\ \E xs \in Vectors :
          /\ Apply(with_chunks(chunks, xs))
          /\ Called("with_chunks", xs)
    /\ UNCHANGED <<unit, report, buffer, reader, iter, item, calls, output>>

\* builder.with_png(&png), png the reader PNGReader::new returned
WithPng ==
    /\ builder = "live" /\ Len(history) < MaxOps
    /\ reader = "Ok"
    /\ Apply(with_png(chunks, buffer))
    /\ Called("with_png", PngChunks(buffer))
    /\ UNCHANGED <<unit, report, buffer, reader, iter, item, calls, output>>

\* builder.build(): the builder is moved into the call
Build ==
    /\ builder = "live"
    /\ output' = Some(build(chunks))
    /\ builder' = "consumed"
    /\ chunks' = <<>>
    /\ Called("build", chunks)
    /\ UNCHANGED <<unit, report, buffer, reader, iter, item, calls>>

Next == New \/ WithChunk \/ WithChunks \/ WithPng \/ Build

Spec == Init /\ [][Next]_vars

NextReader == New \/ NewUnchecked \/ IntoIter \/ Next_

SpecReader == InitReader /\ [][NextReader]_vars

----------------------------------------------------------------------------
(* Helpers of the properties *)

Last(q) == q[Len(q)]

\* the chunk list has no leading IHDR
MissingHeader(cs) == cs = <<>> \/ get_chunk_type(cs[1]) # IHDR

\* the arguments of the with_chunk / with_chunks / with_png calls, in call order
RECURSIVE Appended(_)
Appended(h) ==
    IF h = <<>> THEN <<>>
    ELSE IF Head(h).op = "build" THEN Appended(Tail(h))
    ELSE Head(h).arg \o Appended(Tail(h))

IsIENDTyped(x) == get_chunk_type(x.header) = IEND

\* the canonical IEND chunk: length 0, type IEND, crc 0xAE426082
CanonicalIEND == <<0, 0, 0, 0, 73, 69, 78, 68, 174, 66, 96, 130>>

\* every chunk record of b from the signature to the end of b, by the length
\* fields alone: next() with the memory of the last type cleared
RECURSIVE ChunkRecords(_, _)
ChunkRecords(b, cur) ==
    LET r == next(b, cur, Zeros(4))
    IN  IF r.item = None THEN <<>> ELSE r.item \o ChunkRecords(b, r.cursor)

\* the appended chunks that are not typed IEND, in order
NotIEND(xs) == SelectSeq(xs, LAMBDA x : ~IsIENDTyped(x))

built == output # None

\* PNGReader::new has returned
Constructed == reader \notin {"none", "Unchecked", "Panicked"}
lastCall == Last(history)

----------------------------------------------------------------------------
(* C1 *)

\* C1: build() on a chunk list that is empty or whose first chunk is not typed
\* IHDR fails with MissingHeader and emits no byte stream.
C1_BuildFailsWithoutHeader ==
    (history # <<>> /\ lastCall.op = "build" /\ MissingHeader(lastCall.arg))
        => output = None

----------------------------------------------------------------------------
(* C2 *)

\* C2: no retained chunk is typed IEND, the retained list is the appended chunks
\* with the IEND-typed ones left out, and the built output holds exactly one
\* IEND chunk, its last chunk.
C2_OnlySynthesizedIEND ==
    /\ \A i \in 1..Len(chunks) : get_chunk_type(chunks[i]) # IEND
    /\ builder = "live" =>
          Len(chunks) = Cardinality({i \in 1..Len(Appended(history)) :
                                        ~IsIENDTyped(Appended(history)[i])})
    /\ built =>
          LET cs == ChunkRecords(output[1], PNG_SIGNATURE_LENGTH)
          IN  /\ cs # <<>>
              /\ Last(cs).end = Len(output[1])
              /\ {i \in 1..Len(cs) : get_chunk_type(cs[i].header) = IEND} = {Len(cs)}

\* an output was built after IEND-typed chunks, owned and borrowed, were appended
C2_Witness ==
    /\ built
    /\ \E i \in 1..Len(Appended(history)) :
          IsIENDTyped(Appended(history)[i]) /\ Appended(history)[i].kind = "owned"
    /\ \E i \in 1..Len(Appended(history)) :
          IsIENDTyped(Appended(history)[i]) /\ Appended(history)[i].kind = "refs"

----------------------------------------------------------------------------
(* C3 *)

\* the retained form of the appended chunks that are not typed IEND, in order
RetainedOf(xs) == [i \in 1..Len(NotIEND(xs)) |-> into(NotIEND(xs)[i]).data]

\* C3: the bytes build() returns are the signature, then the bytes of every
\* retained chunk in the order appended across all calls, then the IEND chunk
\* of length 0 and crc crc32("IEND").
C3_BuildLayout ==
    built =>
        output[1] = <<137, 80, 78, 71, 13, 10, 26, 10>>
                        \o Flatten(RetainedOf(Appended(history)))
                        \o CanonicalIEND

\* an output built from two calls that each retained a chunk
C3_Witness ==
    /\ built /\ Len(history) = 3
    /\ RetainedOf(history[1].arg) # <<>>
    /\ RetainedOf(history[2].arg) # <<>>
    /\ RetainedOf(history[1].arg) # RetainedOf(history[2].arg)

----------------------------------------------------------------------------
(* C4 *)

\* type, length, data and crc of each chunk view
ChunkParts(vs) == [i \in 1..Len(vs) |-> <<vs[i].header, vs[i].chunk_data, vs[i].crc>>]

\* C4: a builder given with_png(C) of an accepted C, then build(), yields a buffer
\* PNGReader::new accepts, with the chunks of C followed by the IEND.
C4_RoundTrip ==
    (reader = "Ok" /\ history # <<>> /\ history[1].op = "with_png") =>
        /\ Len(history) = 1 => builder = "live"
        /\ (Len(history) = 2 /\ history[2].op = "build") =>
              /\ PNGReader_new(output[1]) = "Ok"
              /\ ChunkParts(get_all_chunk_info(output[1]))
                   = ChunkParts(NotIEND(get_all_chunk_info(buffer)))
                        \o ChunkParts(<<as_chunk_refs(CanonicalIEND)>>)

----------------------------------------------------------------------------
(* C5 *)

\* the bytes of the chunks of the built output before its last chunk
EmittedChunks ==
    LET cs == ChunkRecords(output[1], PNG_SIGNATURE_LENGTH)
    IN  [i \in 1..(Len(cs) - 1) |-> StoredBytes(cs[i])]

\* C5 as stated: every appended chunk that is emitted is emitted with exactly
\* its stored bytes, the stored crc of a borrowed view included.
C5_StoredBytesEmitted ==
    built =>
        EmittedChunks = [i \in 1..Len(NotIEND(Appended(history))) |->
                            StoredBytes(NotIEND(Appended(history))[i])]

\* what the builder emits for an appended chunk
C5_Emitted(x) ==
    IF x.kind = "refs"
    THEN to_be_bytes(U32(Len(x.chunk_data))) \o get_chunk_type(x.header) \o x.chunk_data
            \o to_be_bytes(crc(get_chunk_type(x.header) \o x.chunk_data))
    ELSE StoredBytes(x)

\* C5 amended: a borrowed view is emitted with its type and data and the crc
\* computed from them, an owned chunk with its stored bytes.
C5_CrcRecomputed ==
    built =>
        EmittedChunks = [i \in 1..Len(NotIEND(Appended(history))) |->
                            C5_Emitted(NotIEND(Appended(history))[i])]

\* an output built after a borrowed view with a wrong stored crc was appended
C5_Witness ==
    /\ built
    /\ \E i \in 1..Len(Appended(history)) :
          LET x == Appended(history)[i]
          IN  /\ x.kind = "refs" /\ ~IsIENDTyped(x)
              /\ ~is_valid_crc(x.crc, get_chunk_type(x.header) \o x.chunk_data)

----------------------------------------------------------------------------
(* C6 *)

\* C6: after a build() that fails (no leading IHDR) the builder is still there
\* with the chunk list it had.
C6_FailedBuildKeepsBuilder ==
    (history # <<>> /\ lastCall.op = "build" /\ MissingHeader(lastCall.arg))
        => (builder = "live" /\ chunks = lastCall.arg)

----------------------------------------------------------------------------
(* C7 *)

IsNextCall == calls' = calls + 1
section == iter[1].current_section

\* the call reads the header of an IEND chunk
ReadsIEND == IsNextCall /\ section # IEND /\ iter'[1].current_section = IEND

\* the chunk whose header lies at the cursor lies whole in the buffer
WholeChunkAt(b, cur) ==
    /\ cur + CHUNK_HEADER_SIZE <= Len(b)
    /\ LET n == get_length(Slice(b, cur, CHUNK_HEADER_SIZE))
       IN  n[1] = 0 /\ cur + CHUNK_HEADER_SIZE + n[2] + CHUNK_CRC_SIZE <= Len(b)

\* C7 as stated: after a header typed IEND was read every call returns None, and
\* the call that read it yields the IEND chunk.
C7_IENDYieldedThenNone ==
    [][/\ (IsNextCall /\ section = IEND) => item' = None
       /\ ReadsIEND => (item' # None /\ get_chunk_type(item'[1].header) = IEND)]_vars

\* C7 amended: the call that read the IEND header yields the chunk when its data
\* and crc lie in the buffer, and nothing when they do not.
C7_IENDThenNone ==
    [][/\ (IsNextCall /\ section = IEND) => item' = None
       /\ ReadsIEND =>
             IF WholeChunkAt(buffer, iter[1].cursor)
             THEN /\ item' # None
                  /\ get_chunk_type(item'[1].header) = IEND
                  /\ item'[1].off = iter[1].cursor
             ELSE item' = None]_vars

\* a call after the one that yielded IEND returned None, a whole chunk remaining
C7_Witness ==
    /\ iter # None /\ section = IEND /\ item = None /\ calls >= 2
    /\ \E i \in 1..Len(get_all_chunk_info(buffer)) :
          /\ IsIENDTyped(get_all_chunk_info(buffer)[i])
          /\ get_all_chunk_info(buffer)[i].end = iter[1].cursor
    /\ WholeChunkAt(buffer, iter[1].cursor)

----------------------------------------------------------------------------
(* C8 *)

\* a header at the cursor declares more data than the bytes after it
DeclaresTooMuch(b, cur) ==
    /\ cur + CHUNK_HEADER_SIZE <= Len(b)
    /\ LET n == get_length(Slice(b, cur, CHUNK_HEADER_SIZE))
       IN  n[1] > 0 \/ cur + CHUNK_HEADER_SIZE + n[2] > Len(b)

\* C8: a call of next() on a header that declares more data than remains yields
\* nothing, and a yielded view lies between the signature and the buffer's end.
C8_ReadsBounded ==
    [][IsNextCall =>
          /\ DeclaresTooMuch(buffer, iter[1].cursor) => item' = None
          /\ item' # None =>
                /\ item'[1].off >= PNG_SIGNATURE_LENGTH
                /\ item'[1].end <= Len(buffer)
                /\ Len(item'[1].chunk_data) = item'[1].end - item'[1].off
                                                 - CHUNK_HEADER_SIZE - CHUNK_CRC_SIZE]_vars

\* the last call read a header declaring more data than remained
C8_Witness ==
    /\ iter # None /\ calls > 0 /\ item = None /\ section # IEND
    /\ iter[1].cursor >= PNG_SIGNATURE_LENGTH + CHUNK_HEADER_SIZE
    /\ DeclaresTooMuch(buffer, iter[1].cursor - CHUNK_HEADER_SIZE)
    /\ get_chunk_type(Slice(buffer, iter[1].cursor - CHUNK_HEADER_SIZE,
                            CHUNK_HEADER_SIZE)) = section

----------------------------------------------------------------------------
(* C9 *)

\* walking the chunk records up to IEND, one runs past the end of the buffer
RECURSIVE TruncatedFrom(_, _)
TruncatedFrom(b, cur) ==
    IF cur >= Len(b) THEN FALSE
    ELSE IF ~WholeChunkAt(b, cur) THEN TRUE
    ELSE LET header == Slice(b, cur, CHUNK_HEADER_SIZE)
         IN  IF get_chunk_type(header) = IEND THEN FALSE
             ELSE TruncatedFrom(b, cur + CHUNK_HEADER_SIZE + get_length(header)[2]
                                       + CHUNK_CRC_SIZE)

\* C9: PNGReader::new does not succeed on a buffer with a valid signature and a
\* truncated chunk.
C9_TruncatedRejected ==
    (Constructed /\ validate_header(buffer) = "Ok"
        /\ TruncatedFrom(buffer, PNG_SIGNATURE_LENGTH))
        => reader # "Ok"

----------------------------------------------------------------------------
(* C10 *)

SignatureErrors == {"ErrShorterThanSignature", "ErrSignature"}

\* C10: PNGReader::new fails with a signature error, never a chunk error, when
\* the buffer is shorter than 8 bytes or differs from the signature in a byte.
C10_SignatureFirst ==
    (Constructed
        /\ (Len(buffer) < 8
            \/ \E i \in 1..8 : buffer[i] # <<137, 80, 78, 71, 13, 10, 26, 10>>[i]))
        => reader \in SignatureErrors

\* a signature error on a buffer that also holds a chunk with a wrong crc
C10_Witness ==
    /\ reader = "ErrSignature"
    /\ Len(buffer) > PNG_SIGNATURE_LENGTH
    /\ validate_chunks(buffer) = "ErrChunks"

----------------------------------------------------------------------------
(* The reference CRC-32, one bit at a time: reflected polynomial           *)
(* 0xEDB88320, register started at 0xFFFFFFFF, result XORed with           *)
(* 0xFFFFFFFF.                                                             *)

\* the register after k more shifts
RECURSIVE RefShift(_, _)
RefShift(reg, k) ==
    IF k = 0 THEN reg
    ELSE IF reg[2] % 2 = 1 THEN RefShift(Xor32(Shr1(reg), <<60856, 33568>>), k - 1)
    ELSE RefShift(Shr1(reg), k - 1)

\* the register after the bytes of buf
RECURSIVE RefRegister(_)
RefRegister(buf) ==
    IF buf = <<>> THEN <<65535, 65535>>
    ELSE RefShift(Xor32(RefRegister(SubSeq(buf, 1, Len(buf) - 1)),
                        <<0, buf[Len(buf)]>>), 8)

Crc32Reference(buf) == Xor32(RefRegister(buf), <<65535, 65535>>)

\* the chunks of buffer whose stored crc is not the reference CRC-32 of the
\* type and data bytes as they lie in the buffer, numbered from 0
Mismatching ==
    LET cs == get_all_chunk_info(buffer)
    IN  {i \in 0..(Len(cs) - 1) :
            from_be_bytes(cs[i + 1].crc) #
                Crc32Reference(Slice(buffer, cs[i + 1].off + 4,
                                     4 + Len(cs[i + 1].chunk_data)))}

----------------------------------------------------------------------------
(* C11 *)

\* C11: PNGReader::new checks the crc of every chunk the iterator yields,
\* going on after a failure: it returns the chunk error exactly when the
\* stored crc of at least one chunk differs from the CRC-32 of its type and
\* data (the length field left out), and the error has a line for each such
\* chunk and for no other; with no such chunk construction succeeds.
C11_EveryChunkChecked ==
    reader \in {"Ok", "ErrChunks"} =>
        /\ reader = "ErrChunks" <=> Mismatching # {}
        /\ reader = "Ok" <=> Mismatching = {}
        /\ {report[k].index : k \in 1..Len(report)} = Mismatching

\* a reader refused for two failing chunks, the second checked after the first
C11_Witness ==
    /\ reader = "ErrChunks"
    /\ Cardinality(Mismatching) = 2
    /\ Len(report) = 2

----------------------------------------------------------------------------
(* C12 *)

\* C12: the chunk error has one line per failing chunk, in order, and each
\* line gives the chunk's index, type, length, its stored crc and the crc
\* calculated from its type and data, two values that differ.
C12_EntryReportsBothCrcs ==
    reader = "ErrChunks" =>
        /\ Len(report) = Cardinality(Mismatching)
        /\ \A k \in 1..Len(report) :
              LET e == report[k]
                  v == get_all_chunk_info(buffer)[e.index + 1]
              IN  /\ e.index \in Mismatching
                  /\ e.chunk_type = get_chunk_type(v.header)
                  /\ e.length = get_length(v.header)
                  /\ e.crc = from_be_bytes(v.crc)
                  /\ e.calculated_crc =
                         Crc32Reference(get_chunk_type(v.header) \o v.chunk_data)
                  /\ e.crc # e.calculated_crc

----------------------------------------------------------------------------
(* An owned PNGChunk on its own: chunk/mod.rs and chunk/header.rs *)

\* data bytes of a chunk handed to PNGChunk::new
MaxData == 2
\* calls made on one owned chunk, PNGChunk::new included
MaxUnitOps == 3

\* the header's length leaves room bytes after the data inside the Vec
LengthFits(d, room) ==
    /\ get_length(d)[1] = 0
    /\ CHUNK_HEADER_SIZE + get_length(d)[2] + room <= Len(d)

\* get_chunk_data_mut()[i] = b
write_data(d, i, b) == [d EXCEPT ![CHUNK_HEADER_SIZE + i + 1] = b]

PNGChunk_is_valid_crc(d) == is_valid_crc(PNGChunk_get_crc(d), PNGChunk_get_crc_data(d))

\* the strings offered as a chunk type: two valid ones, "te5T", "teS",
\* "teSTt" and "\u{e9}ST" (4 bytes, the first two not ASCII)
TypeStrings ==
    {teST, IHDR, te5T, <<116, 101, 83>>, <<116, 101, 83, 84, 116>>, <<195, 169, 83, 84>>}

DataInputs == SeqsUpTo({7, 9}, MaxData)

\* data lengths too large to lay the data out: 0x80000000, 0x80000001,
\* 0xFFFFFFFF, 2^32, 2^32 + 1 and 2^32 + 0x80000001
LargeLens ==
    {<<0, 32768, 0>>, <<0, 32768, 1>>, <<0, 65535, 65535>>,
     <<1, 0, 0>>, <<1, 0, 1>>, <<1, 32768, 1>>}

\* the u32 values offered to set_length
LengthInputs ==
    {U32(0), U32(1), U32(3), U32(7), <<32767, 65535>>, MAX_LENGTH, <<32768, 1>>, U32_MAX}

others == <<report, buffer, reader, iter, item, chunks, builder, output, history>>

Returned(op, arg, val) == ret' = Some([op |-> op, arg |-> arg, val |-> val])

\* the last call, once one was made
last == ret[1]

InitChunk == buffer = <<>> /\ Idle /\ NoUnit

\* PNGChunk::new(ty, data) on data laid out in full
ChunkNew ==
    /\ owned = None /\ calls < MaxUnitOps
    /\ \E ty \in TypeStrings, data \in DataInputs :
          LET r == PNGChunk_new(ty, data)
          IN  /\ owned' = IF r.err = "Ok" THEN Some(r.data) ELSE None
              /\ Returned("new",
                          [chunk_type |-> ty, len |-> Usize(Len(data)), data |-> Some(data)],
                          [err |-> r.err,
                           header |-> SubSeq(r.data, 1, IF r.err = "Ok" THEN CHUNK_HEADER_SIZE ELSE 0)])
    /\ calls' = calls + 1
    /\ UNCHANGED <<input, others>>

\* PNGChunk::new(ty, data) on data of len bytes that is not laid out: only
\* the header it writes is kept
ChunkNewLarge ==
    /\ owned = None /\ calls < MaxUnitOps
    /\ \E ty \in TypeStrings, len \in LargeLens :
          LET r == PNGChunk_new_header(ty, len)
          IN  Returned("new",
                       [chunk_type |-> ty, len |-> len, data |-> None],
                       [err |-> r.err, header |-> r.data])
    /\ owned' = None
    /\ calls' = calls + 1
    /\ UNCHANGED <<input, others>>

\* chunk.set_length(n)
ChunkSetLength ==
    /\ owned # None /\ calls < MaxUnitOps
    /\ \E n \in LengthInputs :
          LET r == set_length(owned[1], n)
          IN  owned' = Some(r.data) /\ Returned("set_length", n, r.ok)
    /\ calls' = calls + 1
    /\ UNCHANGED <<input, others>>

\* chunk.set_chunk_type(ty)
ChunkSetType ==
    /\ owned # None /\ calls < MaxUnitOps
    /\ \E ty \in TypeStrings :
          LET r == set_chunk_type(owned[1], ty)
          IN  /\ owned' = Some(r.data)
              /\ Returned("set_chunk_type", ty, IF r.ok THEN "Ok" ELSE "InvalidChunkType")
    /\ calls' = calls + 1
    /\ UNCHANGED <<input, others>>

\* chunk.get_chunk_data_mut()[i] = b; slicing the Vec panics when the header's
\* length reaches past its end
ChunkWrite ==
    /\ owned # None /\ calls < MaxUnitOps
    /\ IF ~LengthFits(owned[1], 0)
       THEN owned' = None /\ Returned("get_chunk_data_mut", <<>>, "Panic")
       ELSE \E i \in 0..(get_length(owned[1])[2] - 1), b \in {0, 9} :
               /\ owned' = Some(write_data(owned[1], i, b))
               /\ Returned("get_chunk_data_mut", <<i, b>>, "Ok")
    /\ calls' = calls + 1
    /\ UNCHANGED <<input, others>>

\* chunk.calculate_and_set_crc(); as_chunk_crc_mut panics when the header's
\* length reaches past the end of the Vec, and writes past the end of the
\* Vec (unchecked) when fewer than 4 bytes follow the data: the chunk is then
\* either lost or left with the bytes that fell inside it
ChunkCalculateCrc ==
    /\ owned # None /\ calls < MaxUnitOps
    /\ IF ~LengthFits(owned[1], 0)
       THEN owned' = None /\ Returned("calculate_and_set_crc", <<>>, "Panic")
       ELSE IF ~LengthFits(owned[1], CHUNK_CRC_SIZE)
       THEN /\ owned' \in {None,
                           Some(SubSeq(calculate_and_set_crc(owned[1]), 1, Len(owned[1])))}
            /\ Returned("calculate_and_set_crc", <<>>, "OutOfBounds")
       ELSE /\ owned' = Some(calculate_and_set_crc(owned[1]))
            /\ Returned("calculate_and_set_crc", <<>>, "Ok")
    /\ calls' = calls + 1
    /\ UNCHANGED <<input, others>>

\* ChunkType::new(ty), beside the chunk
ChunkTypeNew ==
    /\ calls < MaxUnitOps
    /\ \E ty \in TypeStrings : Returned("ChunkType::new", ty, ChunkType_new(ty))
    /\ calls' = calls + 1
    /\ UNCHANGED <<owned, input, others>>

\* ChunkHeader::new(n, ty)
ChunkHeaderNew ==
    /\ calls < MaxUnitOps
    /\ \E n \in LengthInputs, ty \in TypeStrings :
          Returned("ChunkHeader::new", [length |-> n, chunk_type |-> ty],
                   ChunkHeader_new(n, ty))
    /\ calls' = calls + 1
    /\ UNCHANGED <<owned, input, others>>

NextChunk ==
    ChunkNew \/ ChunkNewLarge \/ ChunkSetLength \/ ChunkSetType \/ ChunkWrite
        \/ ChunkCalculateCrc \/ ChunkTypeNew \/ ChunkHeaderNew

SpecChunk == InitChunk /\ [][NextChunk]_vars

----------------------------------------------------------------------------
(* C13 *)

\* a data length above 0x80000000
Exceeds(len) == len[1] > 0 \/ len[2] > 32768 \/ (len[2] = 32768 /\ len[3] > 0)

\* a string of exactly 4 ASCII letters
IsLetters(str) ==
    /\ Len(str) = 4
    /\ \A i \in 1..Len(str) : str[i] \in (65..90) \cup (97..122)

\* the four bytes of a 32-bit value, most significant first
BigEndian(x) == <<x[1] \div 256, x[1] % 256, x[2] \div 256, x[2] % 256>>

\* C13: PNGChunk::new(type, data) returns LengthOverflow whenever the length
\* of data exceeds 0x80000000, lengths of 2^32 and more included, and
\* InvalidChunkType whenever the type is not valid; otherwise it returns a
\* chunk whose header length is the length of data, whose type and data are
\* the arguments and whose stored crc is the CRC-32 of type ++ data.
C13_NewValidates ==
    (ret # None /\ last.op = "new") =>
        /\ Exceeds(last.arg.len) => last.val.err = "LengthOverflow"
        /\ (~Exceeds(last.arg.len) /\ ~IsLetters(last.arg.chunk_type))
              => last.val.err = "InvalidChunkType"
        /\ (~Exceeds(last.arg.len) /\ IsLetters(last.arg.chunk_type)) =>
              /\ last.val.err = "Ok"
              /\ last.val.header =
                    BigEndian(<<last.arg.len[2], last.arg.len[3]>>) \o last.arg.chunk_type
              /\ last.arg.data # None =>
                    owned = Some(last.val.header \o last.arg.data[1]
                                 \o BigEndian(Crc32Reference(last.arg.chunk_type
                                                             \o last.arg.data[1])))

----------------------------------------------------------------------------
(* C14 *)

\* the crc the chunk reports: get_crc(), the 4 bytes after the header's length
StoredCrc(d) == SubSeq(d, CHUNK_HEADER_SIZE + get_length(d)[2] + 1,
                       CHUNK_HEADER_SIZE + get_length(d)[2] + CHUNK_CRC_SIZE)

\* C14: a write through get_chunk_data_mut leaves the stored crc of an owned
\* chunk as it was; the stored crc changes only in a call of
\* calculate_and_set_crc, and after that call it is the CRC-32 of the type
\* and data, so is_valid_crc is true.  Stated on the steps between two chunks
\* whose crc lies inside the Vec.
C14_CrcChangesOnlyOnRecompute ==
    [][(/\ owned # None /\ owned' # None
        /\ LengthFits(owned[1], CHUNK_CRC_SIZE)
        /\ LengthFits(owned'[1], CHUNK_CRC_SIZE)) =>
          /\ last'.op = "get_chunk_data_mut" => StoredCrc(owned'[1]) = StoredCrc(owned[1])
          /\ StoredCrc(owned'[1]) # StoredCrc(owned[1]) => last'.op = "calculate_and_set_crc"
          /\ last'.op = "calculate_and_set_crc" =>
                /\ StoredCrc(owned'[1]) =
                      BigEndian(Crc32Reference(SubSeq(owned'[1], 5,
                                    CHUNK_HEADER_SIZE + get_length(owned'[1])[2])))
                /\ PNGChunk_is_valid_crc(owned'[1])]_vars

----------------------------------------------------------------------------
(* C15 *)

\* a step that is a call of op on the chunk
IsCall(op) == owned # None /\ calls' = calls + 1 /\ last'.op = op

\* C15: set_length(n) returns false and leaves the length as it was when n is
\* above 0x80000000; otherwise, 0x80000000 included, it returns true and
\* stores n in the first 4 bytes, most significant byte first, so that
\* get_length() then returns n.  Nothing but those 4 bytes changes.
C15_SetLength ==
    [][IsCall("set_length") =>
          IF last'.arg[1] > 32768 \/ (last'.arg[1] = 32768 /\ last'.arg[2] > 0)
          THEN last'.val = FALSE /\ owned' = owned
          ELSE /\ last'.val = TRUE
               /\ owned'[1] = BigEndian(last'.arg) \o SubSeq(owned[1], 5, Len(owned[1]))
               /\ get_length(owned'[1]) = last'.arg]_vars

\* set_length(0x80000000) was accepted and is what get_length returns
C15_Witness ==
    /\ ret # None /\ owned # None
    /\ last.op = "set_length" /\ last.arg = <<32768, 0>> /\ last.val = TRUE
    /\ get_length(owned[1]) = <<32768, 0>>

----------------------------------------------------------------------------
(* C16 *)

\* C16: set_chunk_type(str) and ChunkType::new(str) fail with
\* InvalidChunkType unless str is exactly 4 bytes, all ASCII letters, and a
\* failed set_chunk_type leaves the type (and the chunk) as it was; for a
\* valid str they succeed and the type is exactly those 4 bytes.
C16_TypeFromString ==
    [][/\ IsCall("set_chunk_type") =>
             IF IsLetters(last'.arg)
             THEN /\ last'.val = "Ok"
                  /\ owned'[1] = SubSeq(owned[1], 1, 4) \o last'.arg
                                    \o SubSeq(owned[1], 9, Len(owned[1]))
             ELSE last'.val = "InvalidChunkType" /\ owned' = owned
       /\ (calls' = calls + 1 /\ last'.op = "ChunkType::new") =>
             IF IsLetters(last'.arg)
             THEN last'.val = [err |-> "Ok", _type |-> last'.arg]
             ELSE last'.val.err = "InvalidChunkType"]_vars

\* "te5T" was refused and the chunk kept its type
C16_Witness ==
    /\ ret # None /\ owned # None
    /\ last.op = "set_chunk_type" /\ last.arg = <<116, 101, 53, 84>>
    /\ last.val = "InvalidChunkType"
    /\ SubSeq(owned[1], 5, 8) = <<73, 72, 68, 82>>

----------------------------------------------------------------------------
(* chunk/ty/mod.rs: the property bits of a chunk type *)

BIT_FIVE_MASK == 32

\* a & b on bytes
RECURSIVE BitAnd(_, _)
BitAnd(a, b) ==
    IF a = 0 \/ b = 0 THEN 0
    ELSE (a % 2) * (b % 2) + 2 * BitAnd(a \div 2, b \div 2)

is_ancillary(_type) == BitAnd(_type[1], BIT_FIVE_MASK) # 0

\* the private bit read from the first byte
is_private_first_byte(_type) == BitAnd(_type[1], BIT_FIVE_MASK) # 0

is_private(_type) == BitAnd(_type[2], BIT_FIVE_MASK) # 0

is_reserved(_type) == BitAnd(_type[3], BIT_FIVE_MASK) # 0

is_safe_to_copy(_type) == BitAnd(_type[4], BIT_FIVE_MASK) # 0

----------------------------------------------------------------------------
(* chunk/ty/critical/ihdr.rs: an IHDR is [width, height, details], width    *)
(* and height 4 bytes each, details the 5 one-byte fields                   *)

\* i32::from_be_bytes
i32_from_be_bytes(b) ==
    (IF b[1] >= 128 THEN b[1] - 256 ELSE b[1]) * 16777216
        + b[2] * 65536 + b[3] * 256 + b[4]

get_width(h) == i32_from_be_bytes(h.width)
get_height(h) == i32_from_be_bytes(h.height)

is_valid_dimension(dimension) == dimension > 0

validate_dimensions(h) ==
    IF ~is_valid_dimension(get_width(h)) THEN "InvalidWidth"
    ELSE IF ~is_valid_dimension(get_height(h)) THEN "InvalidHeight"
    ELSE "Ok"

VALID_BIT_DEPTHS == <<1, 2, 4, 8, 16>>

\* indexed by color type, from 0
COLOR_TYPE_LOOKUP_TABLE ==
    <<VALID_BIT_DEPTHS, <<>>, <<8, 16>>, <<1, 2, 4, 8>>, <<8, 16>>, <<>>, <<8, 16>>>>

contains(slice, x) == \E i \in 1..Len(slice) : slice[i] = x

is_valid_bit_depth(bit_depth) ==
    IF ~contains(VALID_BIT_DEPTHS, bit_depth) THEN "InvalidBitDepth" ELSE "Ok"

\* both arrays are indexed with color_type: an index past the end panics, in
\* the table on entry, in VALID_BIT_DEPTHS while the error text is formatted
is_valid_bit_depth_for_color_type(color_type, bit_depth) ==
    IF color_type >= Len(COLOR_TYPE_LOOKUP_TABLE) THEN "Panic"
    ELSE IF ~contains(COLOR_TYPE_LOOKUP_TABLE[color_type + 1], bit_depth)
         THEN IF color_type >= Len(VALID_BIT_DEPTHS) THEN "Panic"
              ELSE "InvalidBitDepthForColorType"
    ELSE "Ok"

is_valid_interlace_method(interlace_method) ==
    IF interlace_method # 1 /\ interlace_method # 0 THEN "InvalidInterlaceMethod"
    ELSE "Ok"

\* IHDRDetails::validate: "Ok", the first error, or "Panic"
IHDRDetails_validate(d) ==
    IF is_valid_bit_depth(d.bit_depth) # "Ok" THEN is_valid_bit_depth(d.bit_depth)
    ELSE IF is_valid_bit_depth_for_color_type(d.color_type, d.bit_depth) # "Ok"
         THEN is_valid_bit_depth_for_color_type(d.color_type, d.bit_depth)
    ELSE IF d.compression_method # 0 THEN "InvalidCompressionMethod"
    ELSE IF d.filter_method # 0 THEN "InvalidFilterMethod"
    ELSE is_valid_interlace_method(d.interlace_method)

\* IHDR::validate
IHDR_validate(h) ==
    IF validate_dimensions(h) # "Ok" THEN validate_dimensions(h)
    ELSE IHDRDetails_validate(h.details)

\* IHDRDetails::new: the details, validated
IHDRDetails_new(bit_depth, color_type, compression_method, filter_method, interlace_method) ==
    LET details == [bit_depth |-> bit_depth, color_type |-> color_type,
                    compression_method |-> compression_method,
                    filter_method |-> filter_method,
                    interlace_method |-> interlace_method]
    IN  [val |-> IHDRDetails_validate(details), details |-> details]

\* the setters of IHDRDetails: the value returned ("Ok", an error, TRUE, FALSE
\* or "Panic") and the details afterwards
set_bit_depth(self, bit_depth) ==
    IF is_valid_bit_depth(bit_depth) # "Ok"
    THEN [val |-> is_valid_bit_depth(bit_depth), self |-> self]
    ELSE IF is_valid_bit_depth_for_color_type(self.color_type, bit_depth) # "Ok"
         THEN [val |-> is_valid_bit_depth_for_color_type(self.color_type, bit_depth),
               self |-> self]
    ELSE [val |-> "Ok", self |-> [self EXCEPT !.bit_depth = bit_depth]]

set_color_type(self, color_type) ==
    IF is_valid_bit_depth_for_color_type(color_type, self.bit_depth) # "Ok"
    THEN [val |-> is_valid_bit_depth_for_color_type(color_type, self.bit_depth),
          self |-> self]
    ELSE [val |-> "Ok", self |-> [self EXCEPT !.color_type = color_type]]

set_bit_depth_and_color_type(self, color_type, bit_depth) ==
    IF is_valid_bit_depth(bit_depth) # "Ok"
    THEN [val |-> is_valid_bit_depth(bit_depth), self |-> self]
    ELSE IF is_valid_bit_depth_for_color_type(color_type, bit_depth) # "Ok"
         THEN [val |-> is_valid_bit_depth_for_color_type(color_type, bit_depth),
               self |-> self]
    ELSE [val |-> "Ok",
          self |-> [self EXCEPT !.color_type = color_type, !.bit_depth = bit_depth]]

set_compression_method(self, compression_method) ==
    IF compression_method # 0 THEN [val |-> FALSE, self |-> self]
    ELSE [val |-> TRUE, self |-> [self EXCEPT !.compression_method = compression_method]]

set_filter_method(self, filter_method) ==
    IF filter_method # 0 THEN [val |-> FALSE, self |-> self]
    ELSE [val |-> TRUE, self |-> [self EXCEPT !.filter_method = filter_method]]

set_interlace_method(self, interlace_method) ==
    IF is_valid_interlace_method(interlace_method) # "Ok"
    THEN [val |-> is_valid_interlace_method(interlace_method), self |-> self]
    ELSE [val |-> "Ok", self |-> [self EXCEPT !.interlace_method = interlace_method]]

IHDR_SIZE == 13

\* the IHDR that lies over the first 13 bytes at the start of the data d; a
\* byte outside d reads as 0
IHDR_at(d) ==
    LET b == Slice(d, 0, IHDR_SIZE)
    IN  [width |-> SubSeq(b, 1, 4),
         height |-> SubSeq(b, 5, 8),
         details |-> [bit_depth |-> b[9], color_type |-> b[10],
                      compression_method |-> b[11], filter_method |-> b[12],
                      interlace_method |-> b[13]]]

\* a from_chunk_refs that looks at the type alone
from_chunk_refs_any_length(chunk_refs) ==
    IF get_chunk_type(chunk_refs.header) # IHDR THEN None
    ELSE Some(IHDR_at(chunk_refs.chunk_data))

\* IHDR::from_chunk_refs: None, or Some(the IHDR over the chunk data)
from_chunk_refs(chunk_refs) ==
    IF get_chunk_type(chunk_refs.header) # IHDR THEN None
    ELSE IF Len(chunk_refs.chunk_data) # IHDR_SIZE THEN None
    ELSE Some(IHDR_at(chunk_refs.chunk_data))

----------------------------------------------------------------------------
(* The pure functions, applied to an input drawn at the start *)

\* bytes of a buffer handed to crc
MaxCrcLen == 3
\* the color types tried are 0..MaxColorType and 255
MaxColorType == 8

\* "tEXt"
tEXt == <<116, 69, 88, 116>>

\* every type over the letters A, Z, a, z, and three types of PNG files
TypeInputs ==
    {<<a, b, c, d>> : a \in {65, 90, 97, 122}, b \in {65, 90, 97, 122},
                      c \in {65, 90, 97, 122}, d \in {65, 90, 97, 122}}
        \cup {tEXt, IHDR, teST}

\* "123456789"
CheckVector == <<49, 50, 51, 52, 53, 54, 55, 56, 57>>

CrcInputs == SeqsUpTo({0, 1, 128, 255}, MaxCrcLen) \cup {CheckVector}

\* 0, 1, 0x7FFFFFFF, 0x80000000 (the least i32) and 0xFFFFFFFF (-1)
Dimensions ==
    {<<0, 0, 0, 0>>, <<0, 0, 0, 1>>, <<127, 255, 255, 255>>, <<128, 0, 0, 0>>,
     <<255, 255, 255, 255>>}

DetailsInputs ==
    [bit_depth : {0, 1, 2, 3, 4, 8, 16, 32},
     color_type : (0..MaxColorType) \cup {255},
     compression_method : {0, 1},
     filter_method : {0, 1},
     interlace_method : {0, 1, 2}]

IhdrInputs ==
    [width : Dimensions, height : {<<0, 0, 0, 0>>, <<0, 0, 0, 1>>, <<128, 0, 0, 0>>},
     details : DetailsInputs]

\* 14 bytes: a valid IHDR payload (1 x 1, bit depth 8, color type 2) and one more
Payload14 == <<0, 0, 0, 1, 0, 0, 0, 1, 8, 2, 0, 0, 0, 7>>

\* chunk views of type "IHDR", "IEND", "teST", "ihdr" and "IHDr" over data
\* of 0, 1, 12, 13 and 14 bytes; the crc, which from_chunk_refs does not
\* read, is left 0
RefsViews ==
    {ChunkRefs_new(to_be_bytes(U32(n)) \o ty \o SubSeq(Payload14, 1, n)
                       \o Zeros(CHUNK_CRC_SIZE), 0, n) :
        ty \in {IHDR, IEND, teST, <<105, 104, 100, 114>>, <<73, 72, 68, 114>>},
        n \in {0, 1, 12, 13, 14}}

InitPure ==
    /\ buffer = <<>> /\ Idle /\ owned = None /\ ret = None
    /\ \/ \E t \in TypeInputs : input = [kind |-> "type", v |-> t]
       \/ \E b \in CrcInputs : input = [kind |-> "bytes", v |-> b]
       \/ \E h \in IhdrInputs : input = [kind |-> "ihdr", v |-> h]
       \/ \E v \in RefsViews : input = [kind |-> "refs", v |-> v]
       \/ \E d \in DetailsInputs :
             LET n == IHDRDetails_new(d.bit_depth, d.color_type, d.compression_method,
                                      d.filter_method, d.interlace_method)
             IN  n.val = "Ok" /\ input = [kind |-> "details", v |-> n.details]

IsAncillary ==
    /\ input.kind = "type"
    /\ Returned("is_ancillary", input.v, is_ancillary(input.v))
    /\ UNCHANGED <<owned, input, calls, others>>

IsPrivate ==
    /\ input.kind = "type"
    /\ Returned("is_private", input.v, is_private(input.v))
    /\ UNCHANGED <<owned, input, calls, others>>

IsReserved ==
    /\ input.kind = "type"
    /\ Returned("is_reserved", input.v, is_reserved(input.v))
    /\ UNCHANGED <<owned, input, calls, others>>

IsSafeToCopy ==
    /\ input.kind = "type"
    /\ Returned("is_safe_to_copy", input.v, is_safe_to_copy(input.v))
    /\ UNCHANGED <<owned, input, calls, others>>

\* crc(buffer)
Crc ==
    /\ input.kind = "bytes"
    /\ Returned("crc", input.v, crc(input.v))
    /\ UNCHANGED <<owned, input, calls, others>>

\* the stored values tried against a buffer: its CRC-32, that value with the
\* last bit flipped, and two fixed values
StoredInputs(buf) ==
    {BigEndian(Crc32Reference(buf)),
     BigEndian(Xor32(Crc32Reference(buf), <<0, 1>>)),
     <<0, 0, 0, 0>>, <<255, 255, 255, 255>>}

\* ChunkCRC { crc: stored }.validate_crc(buffer)
ValidateCrc ==
    /\ input.kind = "bytes"
    /\ \E stored \in StoredInputs(input.v) :
          Returned("validate_crc", [stored |-> stored, data |-> input.v],
                   is_valid_crc(stored, input.v))
    /\ UNCHANGED <<owned, input, calls, others>>

\* ihdr.validate()
IHDRValidate ==
    /\ input.kind = "ihdr"
    /\ Returned("IHDR::validate", input.v, IHDR_validate(input.v))
    /\ UNCHANGED <<owned, input, calls, others>>

\* ihdr.details.validate()
DetailsValidate ==
    /\ input.kind = "ihdr"
    /\ Returned("IHDRDetails::validate", input.v.details, IHDRDetails_validate(input.v.details))
    /\ UNCHANGED <<owned, input, calls, others>>

\* IHDR::from_chunk_refs(view)
FromChunkRefs ==
    /\ input.kind = "refs"
    /\ Returned("from_chunk_refs", input.v, from_chunk_refs(input.v))
    /\ UNCHANGED <<owned, input, calls, others>>

\* the bytes handed to the setters of IHDRDetails
ByteInputs == {0, 1, 2, 3, 4, 8, 16, 32, 255} \cup (5..MaxColorType)

\* a setter of IHDRDetails called on the details held: the call is recorded
\* and the details are those the setter leaves
Setter(op, arg, r) ==
    /\ Returned(op, [self |-> input.v, arg |-> arg], r.val)
    /\ input' = [input EXCEPT !.v = r.self]
    /\ UNCHANGED <<owned, calls, others>>

SetBitDepth ==
    /\ input.kind = "details"
    /\ \E b \in ByteInputs : Setter("set_bit_depth", <<b>>, set_bit_depth(input.v, b))

SetColorType ==
    /\ input.kind = "details"
    /\ \E c \in ByteInputs : Setter("set_color_type", <<c>>, set_color_type(input.v, c))

SetBitDepthAndColorType ==
    /\ input.kind = "details"
    /\ \E c \in ByteInputs, b \in ByteInputs :
          Setter("set_bit_depth_and_color_type", <<c, b>>,
                 set_bit_depth_and_color_type(input.v, c, b))

SetCompressionMethod ==
    /\ input.kind = "details"
    /\ \E m \in ByteInputs :
          Setter("set_compression_method", <<m>>, set_compression_method(input.v, m))

SetFilterMethod ==
    /\ input.kind = "details"
    /\ \E m \in ByteInputs :
          Setter("set_filter_method", <<m>>, set_filter_method(input.v, m))

SetInterlaceMethod ==
    /\ input.kind = "details"
    /\ \E m \in ByteInputs :
          Setter("set_interlace_method", <<m>>, set_interlace_method(input.v, m))

NextPure ==
    IsAncillary \/ IsPrivate \/ IsReserved \/ IsSafeToCopy \/ Crc \/ ValidateCrc
        \/ IHDRValidate \/ DetailsValidate \/ FromChunkRefs
        \/ SetBitDepth \/ SetColorType \/ SetBitDepthAndColorType
        \/ SetCompressionMethod \/ SetFilterMethod \/ SetInterlaceMethod

SpecPure == InitPure /\ [][NextPure]_vars

----------------------------------------------------------------------------
(* C17 *)

\* bit 5 (0x20) of a byte
Bit5(byte) == (byte \div 32) % 2 = 1

\* C17: for every type of 4 letters, is_ancillary, is_private, is_reserved
\* and is_safe_to_copy are bit 5 of byte 0, 1, 2 and 3 of the type; for
\* "tEXt" is_ancillary is true and is_private false, for "IHDR" is_ancillary
\* is false.
C17_PropertyBits ==
    (ret # None /\ input.kind = "type") =>
        /\ IsLetters(last.arg)
        /\ last.op = "is_ancillary" => last.val = Bit5(last.arg[1])
        /\ last.op = "is_private" => last.val = Bit5(last.arg[2])
        /\ last.op = "is_reserved" => last.val = Bit5(last.arg[3])
        /\ last.op = "is_safe_to_copy" => last.val = Bit5(last.arg[4])
        /\ (last.op = "is_ancillary" /\ last.arg = <<116, 69, 88, 116>>) => last.val = TRUE
        /\ (last.op = "is_private" /\ last.arg = <<116, 69, 88, 116>>) => last.val = FALSE
        /\ (last.op = "is_ancillary" /\ last.arg = <<73, 72, 68, 82>>) => last.val = FALSE

\* is_private was asked of "tEXt" and answered false
C17_Witness ==
    /\ ret # None /\ input.kind = "type"
    /\ last.op = "is_private" /\ last.arg = <<116, 69, 88, 116>> /\ last.val = FALSE

----------------------------------------------------------------------------
(* C18 *)

\* C18: crc(bytes) is the reference bit-by-bit CRC-32 of bytes for every
\* input, 0xCBF43926 for "123456789", and validate_crc is true exactly when
\* the stored value is crc(bytes).
C18_CrcIsReference ==
    (ret # None /\ input.kind = "bytes") =>
        /\ last.op = "crc" =>
              /\ last.val = Crc32Reference(last.arg)
              /\ last.arg = <<49, 50, 51, 52, 53, 54, 55, 56, 57>> => last.val = <<52212, 14630>>
        /\ last.op = "validate_crc" =>
              (last.val <=> last.arg.stored = BigEndian(Crc32Reference(last.arg.data)))

\* crc was applied to "123456789"
C18_Witness ==
    /\ ret # None /\ input.kind = "bytes"
    /\ last.op = "crc" /\ last.arg = <<49, 50, 51, 52, 53, 54, 55, 56, 57>>
    /\ last.val = <<52212, 14630>>

----------------------------------------------------------------------------
(* C19 *)

\* the bit depths the PNG format allows for a color type
AllowedDepths(color_type) ==
    CASE color_type = 0 -> {1, 2, 4, 8, 16}
      [] color_type = 2 -> {8, 16}
      [] color_type = 3 -> {1, 2, 4, 8}
      [] color_type = 4 -> {8, 16}
      [] color_type = 6 -> {8, 16}
      [] OTHER -> {}

\* 4 big-endian bytes that are a signed 32-bit number above 0
Positive(b) == b[1] < 128 /\ b # <<0, 0, 0, 0>>

ValidIhdr(h) ==
    /\ Positive(h.width) /\ Positive(h.height)
    /\ h.details.color_type \in {0, 2, 3, 4, 6}
    /\ h.details.bit_depth \in AllowedDepths(h.details.color_type)
    /\ h.details.compression_method = 0
    /\ h.details.filter_method = 0
    /\ h.details.interlace_method \in {0, 1}

ValidationErrors ==
    {"InvalidWidth", "InvalidHeight", "InvalidBitDepth", "InvalidBitDepthForColorType",
     "InvalidCompressionMethod", "InvalidFilterMethod", "InvalidInterlaceMethod"}

\* C19: IHDR::validate() succeeds exactly when width and height are above 0,
\* the color type is one of 0, 2, 3, 4, 6, the bit depth is allowed for it,
\* compression and filter are 0 and interlace is 0 or 1; for every other
\* payload it returns an error.
C19_ValidateExactly ==
    (ret # None /\ last.op = "IHDR::validate") =>
        IF ValidIhdr(last.arg) THEN last.val = "Ok"
        ELSE last.val \in ValidationErrors

----------------------------------------------------------------------------
(* C20 *)

\* C20: for a color type that is none of 0, 2, 3, 4, 6, the validation of the
\* IHDR details returns an error value and does not panic, whatever the bit
\* depth.
C20_BadColorTypeIsError ==
    (/\ ret # None /\ last.op = "IHDRDetails::validate"
     /\ last.arg.color_type \notin {0, 2, 3, 4, 6})
        => last.val \in ValidationErrors

----------------------------------------------------------------------------
(* C21 *)

\* C21: for a color type of 0, 2, 3, 4 or 6 and a bit depth of 1, 2, 4, 8 or
\* 16 that the color type does not allow, the validation of the IHDR details
\* returns the bit-depth-for-color-type error: it neither panics nor
\* succeeds.
C21_IncompatibleDepthIsError ==
    (/\ ret # None /\ last.op = "IHDRDetails::validate"
     /\ last.arg.color_type \in {0, 2, 3, 4, 6}
     /\ last.arg.bit_depth \in {1, 2, 4, 8, 16} \ AllowedDepths(last.arg.color_type))
        => last.val = "InvalidBitDepthForColorType"

----------------------------------------------------------------------------
(* C22 *)

\* C22: IHDR::from_chunk_refs returns an IHDR only for a chunk of type
\* "IHDR" whose data is exactly 13 bytes long, and that IHDR is those 13
\* bytes; for any other type and any other data length it returns none.
C22_FromChunkRefs ==
    (ret # None /\ last.op = "from_chunk_refs") =>
        IF /\ SubSeq(last.arg.header, 5, 8) = <<73, 72, 68, 82>>
           /\ Len(last.arg.chunk_data) = 13
        THEN /\ last.val # None
             /\ last.val[1].width \o last.val[1].height
                   \o <<last.val[1].details.bit_depth, last.val[1].details.color_type,
                        last.val[1].details.compression_method,
                        last.val[1].details.filter_method,
                        last.val[1].details.interlace_method>> = last.arg.chunk_data
        ELSE last.val = None

\* a chunk of type "IHDR" with 12 bytes of data was refused
C22_Witness ==
    /\ ret # None /\ last.op = "from_chunk_refs"
    /\ SubSeq(last.arg.header, 5, 8) = <<73, 72, 68, 82>>
    /\ Len(last.arg.chunk_data) = 12
    /\ last.val = None

----------------------------------------------------------------------------
(* C23 *)

\* C23: every chunk view of a reader that PNGReader::new returned has a
\* length of at most 0x80000000 and a type of 4 ASCII letters: a buffer with
\* a chunk that breaks either bound is refused by PNGReader::new.
C23_ViewsAreWellFormed ==
    reader = "Ok" =>
        \A i \in 1..Len(get_all_chunk_info(buffer)) :
            LET v == get_all_chunk_info(buffer)[i]
            IN  /\ ~Exceeds(<<0>> \o get_length(v.header))
                /\ IsLetters(get_chunk_type(v.header))

----------------------------------------------------------------------------
(* C24 *)

\* C24: appending the chunks of a reader that PNGReader::new returned to a
\* builder never panics, also when the type bytes of one of its chunks are
\* not ASCII letters.
C24_AppendNeverPanics ==
    (reader = "Ok" /\ history # <<>> /\ lastCall.op = "with_png")
        => builder # "panicked"

----------------------------------------------------------------------------
(* C25 *)

\* C25: PNGIter is fused: once a call of next() has returned no item, every
\* later call of next() on the same iterator returns no item.
C25_Fused ==
    [][(IsNextCall /\ calls >= 1 /\ item = None) => item' = None]_vars

----------------------------------------------------------------------------
(* C26 *)

\* C26: after any sequence of new, set_length, set_chunk_type, writes through
\* get_chunk_data_mut and calculate_and_set_crc, the length field of an owned
\* chunk's header is the number of bytes its Vec holds between the 8-byte
\* header and the 4-byte crc, so that no accessor indexes outside the Vec.
C26_LengthIsDataLength ==
    owned # None =>
        /\ Len(owned[1]) >= CHUNK_HEADER_SIZE + CHUNK_CRC_SIZE
        /\ get_length(owned[1]) =
              <<0, Len(owned[1]) - CHUNK_HEADER_SIZE - CHUNK_CRC_SIZE>>

----------------------------------------------------------------------------
(* C27 *)

\* the call recorded last was a setter of IHDRDetails
IsSetterCall ==
    /\ ret # None
    /\ last.op \in {"set_bit_depth", "set_color_type", "set_bit_depth_and_color_type",
                    "set_compression_method", "set_filter_method",
                    "set_interlace_method"}

\* the setter recorded last returned a bool
ReturnsBool == last.op \in {"set_compression_method", "set_filter_method"}

\* C27: on details that validate() accepted, after any sequence of setters
\* with arbitrary bytes validate() still succeeds, a setter that fails leaves
\* every field as it was, and no setter panics.
C27_SettersKeepValid ==
    input.kind = "details" =>
        /\ IHDRDetails_validate(input.v) = "Ok"
        /\ IsSetterCall =>
              IF ReturnsBool THEN last.val = FALSE => input.v = last.arg.self
              ELSE /\ last.val # "Panic"
                   /\ last.val # "Ok" => input.v = last.arg.self

----------------------------------------------------------------------------
(* C28 *)

\* C28: ChunkHeader::new(length, type) returns an error when length is above
\* 0x80000000, and a header it returns holds the length and the type asked for.
C28_HeaderNew ==
    (ret # None /\ last.op = "ChunkHeader::new") =>
        /\ Gt32(last.arg.length, MAX_LENGTH) => last.val.err # "Ok"
        /\ last.val.err = "Ok" =>
              /\ get_length(last.val.header) = last.arg.length
              /\ get_chunk_type(last.val.header) = last.arg.chunk_type

====
